---- MODULE Spec2Model ----
(***************************************************************************)
(* The training-run orchestration of scripts/train_room_segmentation.py:   *)
(* create_enhanced_data_yaml, train_room_segmentation_model and main,      *)
(* over a file system of schema files and model checkpoints.  The YOLO     *)
(* engine (model.train, model.val) is an external collaborator: each call  *)
(* is a nondeterministic choice over the outcomes it can produce.          *)
(***************************************************************************)
EXTENDS Integers, Sequences, FiniteSets, TLC

\* ---- bounds of the model ----
MaxNames == 2      \* longest class list of an input schema file
MaxRuns == 2       \* pipeline invocations in one behaviour
NumSizes == 1      \* how many of the four model sizes are exercised
MaxWeights == 2    \* distinct checkpoint contents the engine can write
MaxMetric == 1     \* validation metric levels 0..MaxMetric (0 the lowest)

\* ---- values ----
\* class names of input schemas: two ordinary ones and two spellings of the
\* required class
ClassNames == {"wall", "floor", "ceiling", "Ceiling"}

\* str.lower() on the class names (line 21)
Lower(name) ==
    CASE name = "Ceiling" -> "ceiling"
      [] name = "CEILING" -> "ceiling"
      [] OTHER -> name

\* argparse choices of --model (line 154), in the order written there
ModelSizes == <<"x", "l", "m", "s">>

Sizes == {ModelSizes[i] : i \in 1..(IF NumSizes < 4 THEN NumSizes ELSE 4)}

\* output_dir (line 59)
OutputDir == "models/room_segmentation"

\* enhanced_yaml = output_dir / "data_enhanced.yaml" (line 63)
EnhancedYaml == "models/room_segmentation/data_enhanced.yaml"

\* the operator's dataset schema file, and a path at which there is no file
DatasetYaml == "Room Segmentation.v1i.yolov8/data.yaml"

MissingYaml == "no_such_dir/data.yaml"

DataPaths == {DatasetYaml, EnhancedYaml, MissingYaml}

\* name = f'room_seg_{model_size}' (line 102)
RunName(size) ==
    CASE size = "x" -> "room_seg_x"
      [] size = "l" -> "room_seg_l"
      [] size = "m" -> "room_seg_m"
      [] size = "s" -> "room_seg_s"

\* best_model_path = output_dir / f'room_seg_{model_size}' / 'weights' / 'best.pt'
\* (line 129)
BestModelPath(size) ==
    CASE size = "x" -> "models/room_segmentation/room_seg_x/weights/best.pt"
      [] size = "l" -> "models/room_segmentation/room_seg_l/weights/best.pt"
      [] size = "m" -> "models/room_segmentation/room_seg_m/weights/best.pt"
      [] size = "s" -> "models/room_segmentation/room_seg_s/weights/best.pt"

\* final_model_path = Path(f"room_segmentation_{model_size}.pt") (line 140)
FinalModelPath(size) ==
    CASE size = "x" -> "room_segmentation_x.pt"
      [] size = "l" -> "room_segmentation_l.pt"
      [] size = "m" -> "room_segmentation_m.pt"
      [] size = "s" -> "room_segmentation_s.pt"

Weights == 1..MaxWeights

Metrics == 0..MaxMetric

\* ---- schema documents (YAML mappings) ----
\* A schema document is a mapping: always an unrelated key "train", and
\* optionally "names" (the class list) and "nc" (the stored class count).
\* A schema file's content is the mapping yaml.safe_load reads from it:
\* yaml.dump of a mapping of strings, integers and lists of strings loads
\* back as the same mapping (dump sorts the keys, and key order is no part of
\* a mapping).
SeqsUpTo(S, n) == UNION {[1..k -> S] : k \in 0..n}

SchemaDoc(hasNames, names, hasNc, nc) ==
    [k \in {"train"} \cup (IF hasNames THEN {"names"} ELSE {})
                     \cup (IF hasNc THEN {"nc"} ELSE {}) |->
        CASE k = "train" -> "../train/images"
          [] k = "names" -> names
          [] k = "nc" -> nc]

InputSchemas ==
    {SchemaDoc(TRUE, ns, TRUE, c) : ns \in SeqsUpTo(ClassNames, MaxNames), c \in 0..(MaxNames + 1)}
    \cup {SchemaDoc(TRUE, ns, FALSE, 0) : ns \in SeqsUpTo(ClassNames, MaxNames)}
    \cup {SchemaDoc(FALSE, <<>>, TRUE, c) : c \in 0..(MaxNames + 1)}
    \cup {SchemaDoc(FALSE, <<>>, FALSE, 0)}

\* data.get('names', []) (line 20)
GetNames(data) == IF "names" \in DOMAIN data THEN data["names"] ELSE <<>>

\* the membership test without the lower-casing
HasCeilingExact(names) == \E i \in 1..Len(names) : names[i] = "ceiling"

\* 'ceiling' in [name.lower() for name in names] (line 21)
HasCeiling(names) == \E i \in 1..Len(names) : Lower(names[i]) = "ceiling"

\* data[key] = value on a mapping (lines 24, 25)
SetKey(data, key, value) ==
    [k \in DOMAIN data \cup {key} |-> IF k = key THEN value ELSE data[k]]

\* ---- file system ----
\* A file system is a function from the paths that exist to their contents.
WriteFile(files, path, content) ==
    [p \in DOMAIN files \cup {path} |-> IF p = path THEN content ELSE files[p]]

RemoveFile(files, path) == [p \in DOMAIN files \ {path} |-> files[p]]

\* a move in place of the copy: dst gets src's content and src is gone
MoveFile(files, src, dst) == RemoveFile(WriteFile(files, dst, files[src]), src)

\* shutil.copy(src, dst) (line 142): dst gets src's content, src stays
CopyFile(files, src, dst) == WriteFile(files, dst, files[src])

VARIABLES
    fs,            \* the file system
    dirs,          \* directories the pipeline created
    pc,            \* position of the running process
    runs,          \* invocations so far
    data_yaml,     \* train_room_segmentation_model's data_yaml
    model_size,    \* its model_size
    data_config,   \* what create_enhanced_data_yaml returned
    model,         \* whether the YOLO model object was constructed
    training_args, \* the training configuration
    metrics,       \* what model.val returned
    trained_model, \* what train_room_segmentation_model returned
    exc,           \* the uncaught exception that ended the process
    printed,       \* the messages printed in this run
    wroteSchema,   \* whether the augmenter wrote its output file in this run
    trainData,     \* the 'data' argument of every train call of this run
    valData,       \* the 'data' argument of every val call of this run
    copyCalls,     \* shutil.copy calls of this run
    bestSeen,      \* the best checkpoint's content when line 131 looked (0: none)
    fsAtStart      \* the file system when this run started

vars == <<fs, dirs, pc, runs, data_yaml, model_size, data_config, model,
          training_args, metrics, trained_model, exc, printed, wroteSchema,
          trainData, valData, copyCalls, bestSeen, fsAtStart>>

NoData == [unset |-> TRUE]

NoArgs == [unset |-> TRUE]

NoMetrics == [unset |-> TRUE]

\* ---- create_enhanced_data_yaml (lines 14-31) ----
\* Returns what the call raised, the schema it returned, the file system it
\* left and whether it wrote the output path.
\* a load that takes a missing file for an empty schema
LoadYamlLenient(files, path) ==
    IF path \in DOMAIN files
    THEN [raised |-> "none", data |-> files[path]]
    ELSE [raised |-> "none", data |-> SchemaDoc(FALSE, <<>>, FALSE, 0)]

\* with open(original_yaml_path, 'r') as f: data = yaml.safe_load(f)
\* (lines 16-17): open raises when there is no file at the path
LoadYaml(files, path) ==
    IF path \in DOMAIN files
    THEN [raised |-> "none", data |-> files[path]]
    ELSE [raised |-> "FileNotFoundError", data |-> NoData]

\* the append without the recount of line 25
AppendCeilingStaleCount(data) == SetKey(data, "names", Append(GetNames(data), "ceiling"))

\* names.append('ceiling'); data['names'] = names; data['nc'] = len(names)
\* (lines 23-25)
AppendCeiling(data) ==
    LET names == Append(GetNames(data), "ceiling")
    IN SetKey(SetKey(data, "names", names), "nc", Len(names))

\* the augmenter writing over its input file instead of the output path
create_enhanced_in_place(files, original_yaml_path, output_path) ==
    LET loaded == LoadYaml(files, original_yaml_path)
    IN IF loaded.raised # "none"
       THEN [raised |-> loaded.raised, data |-> NoData, files |-> files, wrote |-> FALSE]
       ELSE IF ~HasCeiling(GetNames(loaded.data))
       THEN LET data == AppendCeiling(loaded.data)
            IN [raised |-> "none", data |-> data,
                files |-> WriteFile(files, original_yaml_path, data), wrote |-> TRUE]
       ELSE [raised |-> "none", data |-> loaded.data, files |-> files, wrote |-> FALSE]

create_enhanced_data_yaml(files, original_yaml_path, output_path) ==
    LET loaded == LoadYaml(files, original_yaml_path)
    IN IF loaded.raised # "none"
       THEN [raised |-> loaded.raised, data |-> NoData, files |-> files, wrote |-> FALSE]
       ELSE IF ~HasCeiling(GetNames(loaded.data))
       THEN LET data == AppendCeiling(loaded.data)
            IN [raised |-> "none", data |-> data,
                files |-> WriteFile(files, output_path, data), wrote |-> TRUE]
       ELSE [raised |-> "none", data |-> loaded.data, files |-> files, wrote |-> FALSE]

\* ---- train_room_segmentation_model ----
\* training_args (lines 80-123): the run-identity options
TrainingArgs(size) ==
    [data |-> EnhancedYaml, project |-> OutputDir, name |-> RunName(size), exist_ok |-> TRUE]

\* model.val(data=str(enhanced_yaml)) (line 136)
ValidationData == EnhancedYaml

\* the existence check left out
BestModelAssumed(files, size) == TRUE

\* best_model_path.exists() (line 131)
BestModelExists(files, size) == BestModelPath(size) \in DOMAIN files

\* metrics.box.map is there to be read (line 137)
HasMetric(resp) == "box" \in DOMAIN resp /\ "map" \in DOMAIN resp["box"]

\* a retry of the train call when it raised
AfterTrainRetry(raised) == IF raised THEN "train" ELSE "check"

\* where control goes when model.train raised or returned (line 126)
AfterTrain(raised) == IF raised THEN "raised" ELSE "check"

\* a threshold on the metric: below it the function returns None, uncopied
AfterValidateThreshold(resp) ==
    IF ~HasMetric(resp) THEN "raised"
    ELSE IF resp["box"]["map"] > 0 THEN "copy" ELSE "main"

\* where control goes once model.val returned resp (lines 136-142)
AfterValidate(resp) == IF HasMetric(resp) THEN "copy" ELSE "raised"

\* the responses model.val can return: a metric, or a result without one
ValResponses ==
    {[box |-> [map |-> m]] : m \in Metrics} \cup {[box |-> [speed |-> 0]]}

Init ==
    /\ \E s \in InputSchemas : fs = [p \in {DatasetYaml} |-> s]
    /\ dirs = {}
    /\ pc = "idle"
    /\ runs = 0
    /\ data_yaml = ""
    /\ model_size = ""
    /\ data_config = NoData
    /\ model = "none"
    /\ training_args = NoArgs
    /\ metrics = NoMetrics
    /\ trained_model = "unset"
    /\ exc = "none"
    /\ printed = {}
    /\ wroteSchema = FALSE
    /\ trainData = <<>>
    /\ valData = <<>>
    /\ copyCalls = 0
    /\ bestSeen = 0
    /\ fsAtStart = fs

\* main parses the arguments and calls train_room_segmentation_model, which
\* creates the output directory (lines 50-63)
Start(path, size) ==
    /\ pc = "idle"
    /\ runs < MaxRuns
    /\ runs' = runs + 1
    /\ data_yaml' = path
    /\ model_size' = size
    /\ dirs' = dirs \cup {OutputDir}
    /\ fsAtStart' = fs
    /\ pc' = "augment"
    /\ UNCHANGED <<bestSeen, fs, data_config, model, training_args, metrics, trained_model,
                   exc, printed, wroteSchema, trainData, valData, copyCalls>>

\* data_config = create_enhanced_data_yaml(...) and the two prints of it
\* (lines 66-69)
Augment ==
    /\ pc = "augment"
    /\ LET r == create_enhanced_data_yaml(fs, data_yaml, EnhancedYaml)
       IN /\ fs' = r.files
          /\ wroteSchema' = r.wrote
          /\ data_config' = r.data
          /\ IF r.raised # "none"
             THEN /\ exc' = r.raised
                  /\ pc' = "raised"
                  /\ printed' = printed
             ELSE IF "nc" \notin DOMAIN r.data
             THEN /\ exc' = "KeyError"
                  /\ pc' = "raised"
                  /\ printed' = printed \cup {"classes"}
             ELSE /\ exc' = exc
                  /\ pc' = "load"
                  /\ printed' = printed \cup {"classes", "nc"}
    /\ UNCHANGED <<bestSeen, dirs, runs, data_yaml, model_size, model, training_args, metrics,
                   trained_model, trainData, valData, copyCalls, fsAtStart>>

\* model = YOLO(...), from the pretrained weights when that file exists and
\* from the architecture file otherwise: either way one model object is
\* constructed; then training_args is built (lines 71-123)
LoadModel ==
    /\ pc = "load"
    /\ model' = "loaded"
    /\ training_args' = TrainingArgs(model_size)
    /\ pc' = "train"
    /\ UNCHANGED <<bestSeen, fs, dirs, runs, data_yaml, model_size, data_config, metrics,
                   trained_model, exc, printed, wroteSchema, trainData, valData,
                   copyCalls, fsAtStart>>

\* results = model.train(**training_args) (lines 125-126): the engine raises
\* or returns, and in either case may have saved a best checkpoint in the run
\* directory (exist_ok: the directory of an earlier run is reused)
Train ==
    /\ pc = "train"
    /\ trainData' = Append(trainData, training_args.data)
    /\ \E raised \in BOOLEAN, w \in Weights \cup {0} :
          /\ fs' = IF w = 0 THEN fs ELSE WriteFile(fs, BestModelPath(model_size), w)
          /\ exc' = IF raised THEN "TrainError" ELSE exc
          /\ pc' = AfterTrain(raised)
    /\ printed' = printed \cup {"starting"}
    /\ UNCHANGED <<bestSeen, dirs, runs, data_yaml, model_size, data_config, model,
                   training_args, metrics, trained_model, wroteSchema, valData,
                   copyCalls, fsAtStart>>

\* if best_model_path.exists(): ... else: print, return None (lines 128-132,
\* 146-148)
CheckBest ==
    /\ pc = "check"
    /\ IF BestModelExists(fs, model_size)
       THEN /\ printed' = printed \cup {"completed"}
            /\ pc' = "validate"
            /\ trained_model' = trained_model
       ELSE /\ printed' = printed \cup {"not_found"}
            /\ pc' = "main"
            /\ trained_model' = "None"
    /\ bestSeen' = IF BestModelPath(model_size) \in DOMAIN fs
                   THEN fs[BestModelPath(model_size)] ELSE 0
    /\ UNCHANGED <<fs, dirs, runs, data_yaml, model_size, data_config, model,
                   training_args, metrics, exc, wroteSchema, trainData, valData,
                   copyCalls, fsAtStart>>

\* metrics = model.val(data=...); print(metrics.box.map) (lines 134-137): the
\* engine raises, or returns a response whose metric is read
Validate ==
    /\ pc = "validate"
    /\ valData' = Append(valData, ValidationData)
    /\ \/ /\ exc' = "ValError"
          /\ pc' = "raised"
          /\ UNCHANGED <<metrics, printed>>
       \/ \E resp \in ValResponses :
             /\ metrics' = resp
             /\ pc' = AfterValidate(resp)
             /\ exc' = IF HasMetric(resp) THEN exc ELSE "AttributeError"
             /\ printed' = IF HasMetric(resp) THEN printed \cup {"mAP"} ELSE printed
    /\ UNCHANGED <<bestSeen, fs, dirs, runs, data_yaml, model_size, data_config, model,
                   training_args, trained_model, wroteSchema, trainData, copyCalls,
                   fsAtStart>>

\* shutil.copy(best_model_path, final_model_path); return str(final_model_path)
\* (lines 139-145)
Promote ==
    /\ pc = "copy"
    /\ copyCalls' = copyCalls + 1
    /\ IF BestModelPath(model_size) \in DOMAIN fs
       THEN /\ fs' = CopyFile(fs, BestModelPath(model_size), FinalModelPath(model_size))
            /\ printed' = printed \cup {"copied"}
            /\ trained_model' = FinalModelPath(model_size)
            /\ pc' = "main"
            /\ exc' = exc
       ELSE /\ exc' = "FileNotFoundError"
            /\ pc' = "raised"
            /\ UNCHANGED <<fs, printed, trained_model>>
    /\ UNCHANGED <<bestSeen, dirs, runs, data_yaml, model_size, data_config, model,
                   training_args, metrics, wroteSchema, trainData, valData, fsAtStart>>

\* main's report of the returned value (lines 174-178)
Report ==
    /\ pc = "main"
    /\ printed' = printed \cup {IF trained_model # "None" THEN "success" ELSE "failed"}
    /\ pc' = "exited"
    /\ UNCHANGED <<bestSeen, fs, dirs, runs, data_yaml, model_size, data_config, model,
                   training_args, metrics, trained_model, exc, wroteSchema, trainData,
                   valData, copyCalls, fsAtStart>>

\* the process ends (main returned, or the exception left it): nothing of the
\* run survives but the files (lines 180-181)
Exit ==
    /\ pc \in {"exited", "raised"}
    /\ pc' = "idle"
    /\ data_yaml' = ""
    /\ model_size' = ""
    /\ data_config' = NoData
    /\ model' = "none"
    /\ training_args' = NoArgs
    /\ metrics' = NoMetrics
    /\ trained_model' = "unset"
    /\ exc' = "none"
    /\ printed' = {}
    /\ wroteSchema' = FALSE
    /\ trainData' = <<>>
    /\ valData' = <<>>
    /\ copyCalls' = 0
    /\ bestSeen' = 0
    /\ fsAtStart' = fs
    /\ UNCHANGED <<fs, dirs, runs>>

\* between runs the operator deletes a promoted copy
RemovePromoted(size) ==
    /\ pc = "idle"
    /\ FinalModelPath(size) \in DOMAIN fs
    /\ fs' = RemoveFile(fs, FinalModelPath(size))
    /\ fsAtStart' = fs'
    /\ UNCHANGED <<bestSeen, dirs, pc, runs, data_yaml, model_size, data_config, model,
                   training_args, metrics, trained_model, exc, printed, wroteSchema,
                   trainData, valData, copyCalls>>

Next ==
    \/ \E path \in DataPaths, size \in Sizes : Start(path, size)
    \/ Augment
    \/ LoadModel
    \/ Train
    \/ CheckBest
    \/ Validate
    \/ Promote
    \/ Report
    \/ Exit
    \/ \E size \in Sizes : RemovePromoted(size)

Spec == Init /\ [][Next]_vars

\* ---- what the claims speak of ----
\* the spellings of the required class among ClassNames, written out
CeilingSpellings == {"ceiling", "Ceiling"}

MentionsCeiling(names) == \E i \in 1..Len(names) : names[i] \in CeilingSpellings

\* the augmenter has returned or raised in the current run
AfterAugment == pc \notin {"idle", "augment"}

\* the input schema file existed when the run started
InputExists == data_yaml \in DOMAIN fsAtStart

InputDoc == fsAtStart[data_yaml]

\* a path holds now exactly what it held when the run started
SameAsAtStart(path) ==
    /\ path \in DOMAIN fs <=> path \in DOMAIN fsAtStart
    /\ path \in DOMAIN fs => fs[path] = fsAtStart[path]

Best == BestModelPath(model_size)

Final == FinalModelPath(model_size)

\* C1: in a run whose input schema already has the required class (the
\* augmenter wrote nothing), every train call and every validate call is
\* handed the original input schema path.
C1_ReusesOriginalSchema ==
    (AfterAugment /\ InputExists /\ MentionsCeiling(GetNames(InputDoc)) /\ ~wroteSchema)
    => /\ \A i \in 1..Len(trainData) : trainData[i] = data_yaml
       /\ \A i \in 1..Len(valData) : valData[i] = data_yaml

\* C2: for an input schema with no spelling of 'ceiling' in its class list,
\* the augmenter returns, and writes to the output path, the input mapping
\* with the class list extended by one 'ceiling' at the end and the class
\* count set to the new length; the input file keeps its content.
C2_AppendsCeilingOnce ==
    (AfterAugment /\ InputExists /\ ~MentionsCeiling(GetNames(InputDoc)))
    => /\ wroteSchema
       /\ DOMAIN data_config = DOMAIN InputDoc \cup {"names", "nc"}
       /\ data_config["names"] = Append(GetNames(InputDoc), "ceiling")
       /\ data_config["nc"] = Len(GetNames(InputDoc)) + 1
       /\ \A k \in DOMAIN InputDoc \ {"names", "nc"} : data_config[k] = InputDoc[k]
       /\ EnhancedYaml \in DOMAIN fs
       /\ fs[EnhancedYaml] = data_config
       /\ data_yaml \in DOMAIN fs
       /\ fs[data_yaml] = InputDoc

C2_Witness ==
    /\ pc = "load"
    /\ InputExists
    /\ GetNames(InputDoc) = <<"wall", "floor">>
    /\ "nc" \in DOMAIN InputDoc
    /\ InputDoc["nc"] = 2
    /\ fs[EnhancedYaml]["names"] = <<"wall", "floor", "ceiling">>
    /\ fs[EnhancedYaml]["nc"] = 3

\* C3: for an input schema that has the required class in any letter case,
\* every call of the augmenter (in every run) returns the input's content and
\* neither creates nor modifies the file at the output path.
C3_PresentIsUntouched ==
    (AfterAugment /\ InputExists /\ MentionsCeiling(GetNames(InputDoc)))
    => /\ data_config = InputDoc
       /\ ~wroteSchema
       /\ SameAsAtStart(EnhancedYaml)
       /\ SameAsAtStart(data_yaml)

C3_Witness ==
    /\ runs = 2
    /\ pc = "load"
    /\ data_yaml = DatasetYaml
    /\ GetNames(fs[DatasetYaml]) = <<"wall", "Ceiling">>
    /\ data_config = fs[DatasetYaml]
    /\ EnhancedYaml \notin DOMAIN fs

\* C4 as claimed: on both paths the schema the augmenter returns has a class
\* count, and it equals the length of its class list.
C4_CountAlwaysMatches ==
    (AfterAugment /\ InputExists)
    => /\ "nc" \in DOMAIN data_config
       /\ data_config["nc"] = Len(GetNames(data_config))

\* C4 amended: on the mutation path the returned class count equals the
\* length of the returned class list whatever the file stored; on the
\* already-present path the class count is the stored one (absent when the
\* file has none), and with none stored the pipeline stops with KeyError
\* before the model is loaded.
C4_CountRecomputedOnlyOnMutation ==
    (AfterAugment /\ InputExists)
    => /\ ~MentionsCeiling(GetNames(InputDoc))
            => /\ "nc" \in DOMAIN data_config
               /\ data_config["nc"] = Len(GetNames(data_config))
       /\ MentionsCeiling(GetNames(InputDoc))
            => /\ "nc" \in DOMAIN data_config <=> "nc" \in DOMAIN InputDoc
               /\ "nc" \in DOMAIN InputDoc => data_config["nc"] = InputDoc["nc"]
               /\ GetNames(data_config) = GetNames(InputDoc)
       /\ "nc" \notin DOMAIN data_config
            => pc = "raised" /\ exc = "KeyError" /\ model = "none"

C4_Witness ==
    /\ pc = "load"
    /\ wroteSchema
    /\ "nc" \in DOMAIN InputDoc
    /\ InputDoc["nc"] # Len(GetNames(InputDoc))
    /\ GetNames(data_config) = <<"floor", "ceiling">>
    /\ data_config["nc"] = 2

\* C5: when train has returned and there is no best checkpoint at the
\* expected path, the function prints its not-found line and returns None,
\* main prints the failure line and no success line, validation is never
\* called, and the promoted path holds what it held before the run.
C5_TrainingIncomplete ==
    (/\ pc \in {"validate", "copy", "main", "exited", "raised"}
     /\ Len(trainData) = 1
     /\ exc # "TrainError"
     /\ Best \notin DOMAIN fs)
    => /\ pc \in {"main", "exited"}
       /\ trained_model = "None"
       /\ "not_found" \in printed
       /\ pc = "exited" => ("failed" \in printed /\ "success" \notin printed)
       /\ valData = <<>>
       /\ copyCalls = 0
       /\ SameAsAtStart(Final)

C5_Witness ==
    /\ pc = "exited"
    /\ Len(trainData) = 1
    /\ Best \notin DOMAIN fs
    /\ trained_model = "None"
    /\ "failed" \in printed

\* C6, the state after a successful run: the best checkpoint is still there
\* with the content it had when the pipeline found it, and the promoted path
\* holds the same content.
C6_AfterSuccess ==
    (pc \in {"main", "exited"} /\ trained_model \notin {"None", "unset"})
    => /\ trained_model = Final
       /\ Best \in DOMAIN fs
       /\ fs[Best] = bestSeen
       /\ Final \in DOMAIN fs
       /\ fs[Final] = fs[Best]

\* C6, removal: a step that removes a promoted copy leaves every best
\* checkpoint as it was.
C6_RemovalKeepsOriginal ==
    (\E s \in Sizes : FinalModelPath(s) \in DOMAIN fs /\ FinalModelPath(s) \notin DOMAIN fs')
    => \A s \in Sizes :
          BestModelPath(s) \in DOMAIN fs
          => /\ BestModelPath(s) \in DOMAIN fs'
             /\ fs'[BestModelPath(s)] = fs[BestModelPath(s)]

\* C6: promotion copies: after every successful run both files exist with
\* identical content, the checkpoint unchanged and whatever was promoted
\* before replaced; removing the promoted copy later does not touch the
\* checkpoint.
C6_CopySemantics == [](C6_AfterSuccess) /\ [][C6_RemovalKeepsOriginal]_vars

\* a second successful run has replaced the artifact the first one promoted
C6_Witness ==
    /\ pc = "exited"
    /\ trained_model = Final
    /\ Final \in DOMAIN fsAtStart
    /\ Best \in DOMAIN fs
    /\ fsAtStart[Final] # fs[Best]
    /\ fs[Final] = fs[Best]

\* C7: when validation has returned a response without the metric, the run
\* still ends with the best checkpoint copied to the promoted path and that
\* path returned.
C7_MissingMetricStillPromotes ==
    (/\ Len(valData) = 1
     /\ "box" \in DOMAIN metrics
     /\ ~HasMetric(metrics))
    => /\ pc \in {"copy", "main", "exited"}
       /\ pc # "copy" => /\ trained_model = Final
                         /\ Final \in DOMAIN fs
                         /\ fs[Final] = fs[Best]

\* C8 as claimed: when train raised, train was called once, the error
\* reached the operator, and there is no file at the promoted path, whatever
\* runs came before.
C8_NoArtifactAfterTrainingFailed ==
    exc = "TrainError"
    => /\ pc = "raised"
       /\ Len(trainData) = 1
       /\ Final \notin DOMAIN fs

\* C8 amended: when train raised, train was called once, the error left the
\* process uncaught (no value returned, no success line), validation and the
\* copy never ran, and the promoted path holds exactly what it held before
\* the run.
C8_TrainingFailedLeavesArtifactAlone ==
    exc = "TrainError"
    => /\ pc = "raised"
       /\ Len(trainData) = 1
       /\ valData = <<>>
       /\ copyCalls = 0
       /\ trained_model = "unset"
       /\ "success" \notin printed
       /\ SameAsAtStart(Final)

\* train raised in a run that followed a successful one
C8_Witness ==
    /\ pc = "raised"
    /\ exc = "TrainError"
    /\ Final \in DOMAIN fs
    /\ Best \in DOMAIN fs
    /\ fs[Best] # fs[Final]

\* C9: when there is no file at the input schema path, the run ends with
\* FileNotFoundError from the augmenter: the model is never constructed,
\* train and validate are never called, and no file is written or copied.
C9_NotFoundAbortsEarly ==
    (AfterAugment /\ ~InputExists)
    => /\ pc = "raised"
       /\ exc = "FileNotFoundError"
       /\ model = "none"
       /\ trainData = <<>>
       /\ valData = <<>>
       /\ copyCalls = 0
       /\ ~wroteSchema
       /\ fs = fsAtStart

C9_Witness ==
    /\ pc = "raised"
    /\ exc = "FileNotFoundError"
    /\ data_yaml = MissingYaml
    /\ model = "none"

\* C10: the copy runs at most once in a run, and only after one train call
\* and one validate call that returned a metric; the promoted path changes
\* only by that copy; and once validation has returned a metric, whatever
\* its value, the run goes on to the copy and ends with the promoted path
\* returned.
C10_PromotionIgnoresMetric ==
    /\ copyCalls <= 1
    /\ copyCalls = 1 => (Len(trainData) = 1 /\ Len(valData) = 1 /\ HasMetric(metrics))
    /\ (pc # "idle" /\ ~SameAsAtStart(Final)) => copyCalls = 1
    /\ HasMetric(metrics)
         => /\ pc \in {"copy", "main", "exited"}
            /\ pc # "copy" => /\ copyCalls = 1
                              /\ trained_model = Final
                              /\ Final \in DOMAIN fs

C10_Witness ==
    /\ pc = "exited"
    /\ HasMetric(metrics)
    /\ metrics["box"]["map"] = 0
    /\ trained_model = Final
    /\ "success" \in printed

====
